---- MODULE Spec2Model ----
(***************************************************************************)
(* Model of src/src/lib.rs (safer-ffi-example): the Todo / App records,   *)
(* the exported operations app_new, add_todo, get_todo_count,             *)
(* get_todo_id_at, get_todo_note_at and app_free, and the heap            *)
(* allocations they create and release.                                   *)
(*                                                                         *)
(* A text is a sequence of bytes; byte 0 is the null byte.  A C string    *)
(* (CString, char_p::Box, char_p::Ref) is a buffer of bytes ending with a *)
(* null terminator.  The heap maps every live address to a cell: the      *)
(* boxed App, the backing buffer of app.todos, or a note string.          *)
(***************************************************************************)
EXTENDS Integers, Sequences, FiniteSets, TLC

VARIABLES
    heap,       \* live allocations: address -> cell
    apps,       \* the caller's handles: slot -> [state, ptr]
    held,       \* addresses of the strings the caller owns (returned char_p::Box / Todo)
    ret,        \* the last operation: its name, handle, arguments and result
    log,        \* history: per live handle, the (id, note) pairs passed to add_todo
    doubleFree, \* an address was released that was not live
    calls       \* per caller, the add_todo call it is in the middle of

vars == <<heap, apps, held, ret, log, doubleFree, calls>>

---------------------------------------------------------------------------
(* Bounds of the model *)

MaxApps == 2     \* handles the caller creates
MaxAdds == 2     \* elements the live Apps hold in total
MaxHeld == 1     \* strings the caller holds at a time

(* Program constants *)

ErrId == -1      \* get_todo_id_at: the error value

Slots == 1 .. MaxApps
NoSlot == 0      \* ret.slot of a call that takes no handle / a null handle

\* the (id, text) pairs a caller passes: valid texts without a null byte; the
\* ids and texts include the error values -1 and the empty text
Inputs == {[id |-> 1, note |-> <<1, 2>>], [id |-> ErrId, note |-> <<>>]}

\* a text with an interior null byte (a Rust &str may hold one)
NulInputs == {[id |-> 1, note |-> <<1, 0, 2>>]}

\* what the caller writes into a string it owns: a terminator over its first byte
Scribble == <<0>>

Indexes == 0 .. MaxAdds

\* the callers that may run add_todo at the same time
Callers == {"a", "b"}

\* a caller that is in no call
IdleCall == [pc |-> "idle", slot |-> NoSlot, id |-> 0, text |-> <<>>, vec |-> <<>>, n |-> 0]

---------------------------------------------------------------------------
(* Strings *)

Range(f) == {f[i] : i \in DOMAIN f}

HasNul(s) == 0 \in Range(s)

\* a to_str that keeps the terminator (to_bytes_with_nul)
ToStrWithNul(buf) == buf

\* char_p::Ref::to_str / char_p::Box::to_str: the bytes before the terminator
RECURSIVE ToStr(_)
ToStr(buf) ==
    IF buf = <<>> \/ Head(buf) = 0 THEN <<>>
    ELSE <<Head(buf)>> \o ToStr(Tail(buf))

\* std::ffi::CString::new(s): Err on an interior null byte, else s with a terminator
CStringNew(s) ==
    IF HasNul(s) THEN [ok |-> FALSE, bytes |-> <<>>]
    ELSE [ok |-> TRUE, bytes |-> Append(s, 0)]

\* tests::c_str: the caller's buffer for a text, borrowed by add_todo as char_p::Ref
CStr(s) == CStringNew(s).bytes

---------------------------------------------------------------------------
(* Heap *)

StrCell(b) == [kind |-> "Str", bytes |-> b, elems |-> <<>>, ptr |-> 0, len |-> 0]
VecCell(es) == [kind |-> "Vec", bytes |-> <<>>, elems |-> es, ptr |-> 0, len |-> 0]
AppCell(p, n) == [kind |-> "App", bytes |-> <<>>, elems |-> <<>>, ptr |-> p, len |-> n]

\* a cell read through a dangling pointer
Poison == [kind |-> "Freed", bytes |-> <<9, 0>>, elems |-> <<>>, ptr |-> 0, len |-> 0]

Cell(hp, a) == IF a \in DOMAIN hp THEN hp[a] ELSE Poison

\* the allocator: the lowest address that is not live
NewAddr(hp) ==
    CHOOSE a \in 1 .. (Cardinality(DOMAIN hp) + 1) :
        /\ a \notin DOMAIN hp
        /\ \A b \in 1 .. (a - 1) : b \in DOMAIN hp

Alloc(hp, cell) == hp @@ (NewAddr(hp) :> cell)

Release(hp, addrs) == [a \in (DOMAIN hp) \ addrs |-> hp[a]]

\* releasing the addresses of seq one by one meets no address twice and none that is not live
DropOk(hp, seq) ==
    /\ \A i \in DOMAIN seq : seq[i] \in DOMAIN hp
    /\ \A i, j \in DOMAIN seq : i # j => seq[i] # seq[j]

---------------------------------------------------------------------------
(* Todo and App *)

\* Todo::new(id, note): CString::new(note).unwrap() panics on an interior null
\* byte; otherwise the note is a fresh allocation holding the text and a terminator
TodoNew(hp, id, note) ==
    LET c_string == CStringNew(note)
    IN  IF c_string.ok
        THEN [ok |-> TRUE, hp |-> Alloc(hp, StrCell(c_string.bytes)),
              todo |-> [id |-> id, note |-> NewAddr(hp)]]
        ELSE [ok |-> FALSE, hp |-> hp, todo |-> [id |-> id, note |-> 0]]

\* a clone that copies the pointer of the note, as a bitwise copy would
TodoCloneShallow(hp, todo) == [hp |-> hp, todo |-> todo]

\* #[derive(Clone)] on Todo: the id by value, the note into a fresh allocation
TodoClone(hp, todo) ==
    [hp |-> Alloc(hp, StrCell(Cell(hp, todo.note).bytes)),
     todo |-> [id |-> todo.id, note |-> NewAddr(hp)]]

\* app.todos as a slice: the first len elements of the backing buffer
Todos(hp, app) ==
    LET a == Cell(hp, app)
    IN  IF a.ptr = 0 THEN <<>> ELSE SubSeq(Cell(hp, a.ptr).elems, 1, a.len)

\* app.todos.iter().cloned().collect(): clones of the elements, in order
RECURSIVE ClonedCollect(_, _, _)
ClonedCollect(hp, todos, acc) ==
    IF todos = <<>> THEN [hp |-> hp, vec |-> acc]
    ELSE LET c == TodoClone(hp, Head(todos))
         IN  ClonedCollect(c.hp, Tail(todos), Append(acc, c.todo))

\* the allocations the drop of app.todos releases, in order: each element's
\* note, then the backing buffer
TodosDrop(hp, app) ==
    LET a == Cell(hp, app)
        ts == Todos(hp, app)
    IN  [i \in 1 .. Len(ts) |-> ts[i].note]
        \o (IF a.ptr = 0 THEN <<>> ELSE <<a.ptr>>)

\* App::default(): an empty todos, which owns no buffer
AppDefault == AppCell(0, 0)

\* get_todo_count(app): app.todos.len()
TodoCount(hp, app) == Cell(hp, app).len

\* a push that forgets the cloned elements
PushAlone(vec, todo) == <<todo>>

\* a push that puts the new element first
PushFront(vec, todo) == <<todo>> \o vec

\* native_vec.push(todo)
Push(vec, todo) == Append(vec, todo)

\* a result that reports whether the collection held elements before the call
AddTodoFlagNonEmpty(n) == n > 0

\* the value add_todo returns, for a collection that held n elements
AddTodoFlag(n) == TRUE

\* an add_todo that keeps the error values for errors: it refuses the id -1
\* and the empty note with false and leaves the App as it was
AddTodoHeapChecked(hp, app, id, note) ==
    LET note_str == ToStr(note)
        t == TodoNew(hp, id, note_str)
        c == ClonedCollect(t.hp, Todos(hp, app), <<>>)
        native_vec == Push(c.vec, t.todo)
        buf == NewAddr(c.hp)
        hp2 == Alloc(c.hp, VecCell(native_vec))
        old == TodosDrop(hp, app)
        hp3 == [hp2 EXCEPT ![app] = AppCell(buf, Len(native_vec))]
    IN  IF id = ErrId \/ note_str = <<>>
        THEN [ok |-> TRUE, hp |-> hp, dropOk |-> TRUE, flag |-> FALSE]
        ELSE [ok |-> t.ok,
              hp |-> IF t.ok THEN Release(hp3, Range(old)) ELSE hp,
              dropOk |-> (~t.ok) \/ DropOk(hp3, old),
              flag |-> AddTodoFlag(TodoCount(hp, app))]

\* add_todo(app, id, note) on the heap: the new Todo, the cloned elements, the
\* push, and the assignment to app.todos, which drops the previous value
AddTodoHeap(hp, app, id, note) ==
    LET note_str == ToStr(note)
        t == TodoNew(hp, id, note_str)
        c == ClonedCollect(t.hp, Todos(hp, app), <<>>)
        native_vec == Push(c.vec, t.todo)
        buf == NewAddr(c.hp)
        hp2 == Alloc(c.hp, VecCell(native_vec))
        old == TodosDrop(hp, app)
        hp3 == [hp2 EXCEPT ![app] = AppCell(buf, Len(native_vec))]
    IN  [ok |-> t.ok,
         hp |-> IF t.ok THEN Release(hp3, Range(old)) ELSE hp,
         dropOk |-> (~t.ok) \/ DropOk(hp3, old),
         flag |-> AddTodoFlag(TodoCount(hp, app))]

\* get_todo_id_at with 0 as the error value
TodoIdAtZero(hp, app, index) ==
    IF index < TodoCount(hp, app)
    THEN Todos(hp, app)[index + 1].id
    ELSE 0

\* get_todo_id_at(app, index)
TodoIdAt(hp, app, index) ==
    IF index < TodoCount(hp, app)
    THEN Todos(hp, app)[index + 1].id
    ELSE ErrId

\* get_todo_note_at(app, index): the buffer of the returned char_p::Box
TodoNoteAt(hp, app, index) ==
    IF index < TodoCount(hp, app)
    THEN LET note_str == ToStr(Cell(hp, Todos(hp, app)[index + 1].note).bytes)
         IN  CStringNew(note_str).bytes
    ELSE CStringNew(<<>>).bytes

\* a drop that releases the App alone, as free() on the handle would
AppDropShallow(hp, app) == <<app>>

\* the allocations the drop of a Box<App> releases, in order
AppDrop(hp, app) == TodosDrop(hp, app) \o <<app>>

---------------------------------------------------------------------------
(* The calls *)

Call(op, slot, index) ==
    [op |-> op, slot |-> slot, index |-> index, outcome |-> "ok",
     flag |-> FALSE, num |-> 0, str |-> <<>>, text |-> <<>>]

Running == ret.outcome = "ok"

Live(s) == apps[s].state = "Live"

RECURSIVE SumLen(_, _)
SumLen(f, S) ==
    IF S = {} THEN 0
    ELSE LET x == CHOOSE x \in S : TRUE IN Len(f[x]) + SumLen(f, S \ {x})

\* elements added to the live Apps
TotalAdds == SumLen(log, Slots)

\* Addresses are opaque to the program, so states are kept up to a renaming of
\* them: after every call the live cells are numbered 1, 2, ... in the order
\* in which the handles reach them (the App, then what its todos own), then
\* the other cells by address; a pointer to a released cell becomes 0.
RECURSIVE Sorted(_)
Sorted(S) ==
    IF S = {} THEN <<>>
    ELSE LET m == CHOOSE x \in S : \A y \in S : x <= y
         IN  <<m>> \o Sorted(S \ {m})

RECURSIVE Dedup(_, _)
Dedup(seq, acc) ==
    IF seq = <<>> THEN acc
    ELSE Dedup(Tail(seq),
               IF Head(seq) \in Range(acc) THEN acc ELSE Append(acc, Head(seq)))

RECURSIVE Owned(_, _, _)
Owned(hp, ap, s) ==
    IF s > MaxApps THEN <<>>
    ELSE (IF ap[s].state = "Live" /\ ap[s].ptr \in DOMAIN hp
          THEN <<ap[s].ptr>> \o TodosDrop(hp, ap[s].ptr) ELSE <<>>)
         \o Owned(hp, ap, s + 1)

Order(hp, ap) ==
    LET owned == Dedup(SelectSeq(Owned(hp, ap, 1), LAMBDA a : a \in DOMAIN hp), <<>>)
    IN  owned \o Sorted((DOMAIN hp) \ Range(owned))

Rename(ord, a) ==
    IF \E n \in DOMAIN ord : ord[n] = a
    THEN CHOOSE n \in DOMAIN ord : ord[n] = a
    ELSE 0

Compact(hp, ord) ==
    [n \in DOMAIN ord |->
        [hp[ord[n]] EXCEPT !.ptr = Rename(ord, @),
                           !.elems = [i \in DOMAIN @ |->
                                         [@[i] EXCEPT !.note = Rename(ord, @)]]]]

\* the state after a call, with the addresses renamed
Commit(hp, ap, hd, r) ==
    LET ord == Order(hp, ap)
    IN  /\ heap' = Compact(hp, ord)
        /\ apps' = [s \in Slots |-> [ap[s] EXCEPT !.ptr = Rename(ord, @)]]
        /\ held' = {Rename(ord, a) : a \in hd}
        /\ ret' = r

Init ==
    /\ heap = <<>>
    /\ apps = [s \in Slots |-> [state |-> "Unallocated", ptr |-> 0]]
    /\ held = {}
    /\ ret = Call("none", NoSlot, 0)
    /\ log = [s \in Slots |-> <<>>]
    /\ doubleFree = FALSE
    /\ calls = [c \in Callers |-> IdleCall]

\* an app_new that hands out one shared App, as a static instance would
AppNewShared(s) ==
    /\ Running
    /\ UNCHANGED calls
    /\ apps[s].state = "Unallocated"
    /\ \A t \in Slots : t < s => apps[t].state # "Unallocated"
    /\ IF \E t \in Slots : apps[t].state = "Live"
       THEN /\ apps' = [apps EXCEPT ![s] =
                          apps[CHOOSE t \in Slots : apps[t].state = "Live"]]
            /\ ret' = Call("app_new", s, 0)
            /\ UNCHANGED <<heap, held>>
       ELSE Commit(Alloc(heap, AppDefault),
                   [apps EXCEPT ![s] = [state |-> "Live", ptr |-> NewAddr(heap)]],
                   held,
                   Call("app_new", s, 0))
    /\ UNCHANGED <<log, doubleFree>>

\* app_new(): Box::new(App::default()); the s-th handle the caller obtains
AppNew(s) ==
    /\ Running
    /\ UNCHANGED calls
    /\ apps[s].state = "Unallocated"
    /\ \A t \in Slots : t < s => apps[t].state # "Unallocated"
    /\ Commit(Alloc(heap, AppDefault),
              [apps EXCEPT ![s] = [state |-> "Live", ptr |-> NewAddr(heap)]],
              held,
              Call("app_new", s, 0))
    /\ UNCHANGED <<log, doubleFree>>

\* add_todo(app, id, note) with the caller's buffer for the text
AddTodo(s, id, text) ==
    /\ Running
    /\ UNCHANGED calls
    /\ Live(s)
    /\ TotalAdds < MaxAdds
    /\ LET r == AddTodoHeap(heap, apps[s].ptr, id, CStr(text))
       IN  /\ Commit(r.hp, apps, held,
                     IF r.ok
                     THEN [Call("add_todo", s, 0) EXCEPT !.flag = r.flag]
                     ELSE [Call("add_todo", s, 0) EXCEPT !.outcome = "panic"])
           /\ doubleFree' = (doubleFree \/ ~r.dropOk)
           /\ log' = IF r.ok
                     THEN [log EXCEPT ![s] = Append(@, [id |-> id, note |-> text])]
                     ELSE log

\* an add_todo that keeps the caller's buffer as the note of the new element
AddTodoRefKeeps(s, id, a) ==
    /\ Running
    /\ UNCHANGED calls
    /\ Live(s)
    /\ TotalAdds < MaxAdds
    /\ a \in held /\ a \in DOMAIN heap
    /\ [id |-> id, note |-> ToStr(heap[a].bytes)] \in Inputs
    /\ LET r == AddTodoHeap(heap, apps[s].ptr, id, heap[a].bytes)
           buf == r.hp[apps[s].ptr].ptr
           n == Len(r.hp[buf].elems)
           made == r.hp[buf].elems[n].note
       IN  /\ Commit(Release([r.hp EXCEPT ![buf].elems[n].note = a], {made}),
                     apps, held,
                     [Call("add_todo", s, 0) EXCEPT
                         !.flag = r.flag, !.text = ToStr(heap[a].bytes)])
           /\ log' = [log EXCEPT ![s] =
                         Append(@, [id |-> id, note |-> ToStr(heap[a].bytes)])]
    /\ UNCHANGED doubleFree

\* add_todo(app, id, note) with note a char_p::Ref to a string the caller
\* owns and keeps after the call; ret.text is the text of that string
AddTodoRef(s, id, a) ==
    /\ Running
    /\ UNCHANGED calls
    /\ Live(s)
    /\ TotalAdds < MaxAdds
    /\ a \in held /\ a \in DOMAIN heap
    /\ [id |-> id, note |-> ToStr(heap[a].bytes)] \in Inputs
    /\ LET r == AddTodoHeap(heap, apps[s].ptr, id, heap[a].bytes)
           text == ToStr(heap[a].bytes)
       IN  /\ Commit(r.hp, apps, held,
                     IF r.ok
                     THEN [Call("add_todo", s, 0) EXCEPT !.flag = r.flag, !.text = text]
                     ELSE [Call("add_todo", s, 0) EXCEPT !.outcome = "panic"])
           /\ doubleFree' = (doubleFree \/ ~r.dropOk)
           /\ log' = IF r.ok
                     THEN [log EXCEPT ![s] = Append(@, [id |-> id, note |-> text])]
                     ELSE log

\* get_todo_count(app)
GetTodoCount(s) ==
    /\ Running
    /\ UNCHANGED calls
    /\ Live(s)
    /\ ret' = [Call("get_todo_count", s, 0) EXCEPT !.num = TodoCount(heap, apps[s].ptr)]
    /\ UNCHANGED <<heap, apps, held, log, doubleFree>>

\* a get_todo_id_at that empties the collection it reads, as a take would
GetTodoIdAtTake(s, index) ==
    /\ Running
    /\ UNCHANGED calls
    /\ Live(s)
    /\ ret' = [Call("get_todo_id_at", s, index) EXCEPT
                  !.num = TodoIdAt(heap, apps[s].ptr, index)]
    /\ heap' = [heap EXCEPT ![apps[s].ptr].len = 0]
    /\ UNCHANGED <<apps, held, log, doubleFree>>

\* get_todo_id_at(app, index)
GetTodoIdAt(s, index) ==
    /\ Running
    /\ UNCHANGED calls
    /\ Live(s)
    /\ ret' = [Call("get_todo_id_at", s, index) EXCEPT
                  !.num = TodoIdAt(heap, apps[s].ptr, index)]
    /\ UNCHANGED <<heap, apps, held, log, doubleFree>>

\* a get_todo_note_at that returns the stored note itself for an index in range
GetTodoNoteAtAlias(s, index) ==
    /\ Running
    /\ UNCHANGED calls
    /\ Live(s)
    /\ Cardinality(held) < MaxHeld
    /\ IF index < TodoCount(heap, apps[s].ptr)
       THEN /\ held' = held \cup {Todos(heap, apps[s].ptr)[index + 1].note}
            /\ ret' = [Call("get_todo_note_at", s, index) EXCEPT
                          !.str = ToStr(TodoNoteAt(heap, apps[s].ptr, index))]
            /\ UNCHANGED <<heap, apps>>
       ELSE Commit(Alloc(heap, StrCell(CStringNew(<<>>).bytes)), apps,
                   held \cup {NewAddr(heap)},
                   Call("get_todo_note_at", s, index))
    /\ UNCHANGED <<log, doubleFree>>

\* get_todo_note_at(app, index): the caller receives a char_p::Box it owns
GetTodoNoteAt(s, index) ==
    /\ Running
    /\ UNCHANGED calls
    /\ Live(s)
    /\ Cardinality(held) < MaxHeld
    /\ LET bytes == TodoNoteAt(heap, apps[s].ptr, index)
       IN  Commit(Alloc(heap, StrCell(bytes)), apps, held \cup {NewAddr(heap)},
                  [Call("get_todo_note_at", s, index) EXCEPT !.str = ToStr(bytes)])
    /\ UNCHANGED <<log, doubleFree>>

\* an app_free that releases nothing and leaves the handle usable
AppFreeKeeps(s) ==
    /\ Running
    /\ UNCHANGED calls
    /\ Live(s)
    /\ ret' = Call("app_free", s, 0)
    /\ UNCHANGED <<heap, apps, held, log, doubleFree>>

\* app_free(app): the Box<App> is dropped at the end of the function
AppFree(s) ==
    /\ Running
    /\ UNCHANGED calls
    /\ Live(s)
    /\ LET gone == AppDrop(heap, apps[s].ptr)
       IN  /\ Commit(Release(heap, Range(gone)),
                     [apps EXCEPT ![s].state = "Freed"], held,
                     [Call("app_free", s, 0) EXCEPT !.num = Len(gone)])
           /\ doubleFree' = (doubleFree \/ ~DropOk(heap, gone))
    /\ log' = [log EXCEPT ![s] = <<>>]

\* tests::test_todo_new: a Rust caller builds a Todo by Todo::new(id, text),
\* reads todo.id and todo.note.to_str(), and drops the Todo at the end of the scope
TodoNewCall(id, text) ==
    /\ Running
    /\ UNCHANGED calls
    /\ LET r == TodoNew(heap, id, text)
       IN  /\ heap' = IF r.ok THEN Release(r.hp, {r.todo.note}) ELSE r.hp
           /\ ret' = IF r.ok
                     THEN [Call("Todo::new", NoSlot, 0) EXCEPT
                              !.text = text,
                              !.num = r.todo.id,
                              !.str = ToStr(Cell(r.hp, r.todo.note).bytes)]
                     ELSE [Call("Todo::new", NoSlot, 0) EXCEPT
                              !.text = text, !.outcome = "panic"]
           /\ doubleFree' = (doubleFree \/ (r.ok /\ r.todo.note \notin DOMAIN r.hp))
    /\ UNCHANGED <<apps, held, log>>

\* the caller drops a string it owns
DropNote(a) ==
    /\ Running
    /\ UNCHANGED calls
    /\ a \in held
    /\ Commit(Release(heap, {a}), apps, held \ {a}, Call("drop", NoSlot, 0))
    /\ doubleFree' = (doubleFree \/ a \notin DOMAIN heap)
    /\ UNCHANGED log

\* the caller overwrites a string it owns
AlterNote(a) ==
    /\ Running
    /\ UNCHANGED calls
    /\ a \in held
    /\ a \in DOMAIN heap
    /\ heap[a].bytes # Scribble
    /\ heap' = [heap EXCEPT ![a].bytes = Scribble]
    /\ ret' = Call("alter", NoSlot, 0)
    /\ UNCHANGED <<apps, held, log, doubleFree>>

\* a value read from memory that holds no App
Garbage == 7

NullOps == {"add_todo", "get_todo_count", "get_todo_id_at", "get_todo_note_at"}

\* a call with a null handle: the functions take `&App` / `&mut App` and
\* dereference it without a check, which is undefined behaviour: the call
\* faults, or returns whatever it read ("garbage"); nothing is known of the
\* program after either
NullHandleCall(op) ==
    /\ Running
    /\ UNCHANGED calls
    /\ \E outcome \in {"fault", "garbage"} :
          ret' = [Call(op, NoSlot, 0) EXCEPT
                     !.outcome = outcome,
                     !.flag = (outcome = "garbage" /\ op = "add_todo"),
                     !.num = IF outcome = "garbage"
                                /\ op \in {"get_todo_count", "get_todo_id_at"}
                             THEN Garbage ELSE 0,
                     !.str = IF outcome = "garbage" /\ op = "get_todo_note_at"
                             THEN <<Garbage>> ELSE <<>>]
    /\ UNCHANGED <<heap, apps, held, log, doubleFree>>

Next ==
    \/ \E s \in Slots : AppNew(s)
    \/ \E s \in Slots, in \in Inputs : AddTodo(s, in.id, in.note)
    \/ \E s \in Slots, in \in Inputs, a \in held : AddTodoRef(s, in.id, a)
    \/ \E s \in Slots : GetTodoCount(s)
    \/ \E s \in Slots, index \in Indexes : GetTodoIdAt(s, index)
    \/ \E s \in Slots, index \in Indexes : GetTodoNoteAt(s, index)
    \/ \E s \in Slots : AppFree(s)
    \/ \E in \in Inputs \cup NulInputs : TodoNewCall(in.id, in.note)
    \/ \E a \in held : DropNote(a)
    \/ \E a \in held : AlterNote(a)
    \/ \E op \in NullOps : NullHandleCall(op)

Spec == Init /\ [][Next]_vars

---------------------------------------------------------------------------
(* add_todo step by step, for callers that run it at the same time on one
   handle.  The function takes no lock; its statements are the collect of
   the clones with the push (lines 174-184) and the assignment to app.todos
   (line 187).  Two calls in flight on one App are two `&mut App` in use at
   once, a data race: besides the interleaving of the statements the calls
   may fault. *)

AllIdle == \A c \in Callers : calls[c].pc = "idle"

InFlight == Cardinality({c \in Callers : calls[c].pc # "idle"})

\* note.to_str(), Todo::new, app.todos.iter().cloned().collect() and the push:
\* the caller now holds native_vec, made of the n elements it read
AddTodoCollect(c, s, id, text) ==
    /\ Running
    /\ Live(s)
    /\ calls[c].pc = "idle"
    /\ TotalAdds + InFlight < MaxAdds
    /\ LET note_str == ToStr(CStr(text))
           t == TodoNew(heap, id, note_str)
           col == ClonedCollect(t.hp, Todos(heap, apps[s].ptr), <<>>)
           native_vec == Push(col.vec, t.todo)
       IN  IF t.ok
           THEN /\ heap' = col.hp
                /\ calls' = [calls EXCEPT ![c] =
                                [pc |-> "pushed", slot |-> s, id |-> id,
                                 text |-> note_str, vec |-> native_vec,
                                 n |-> Len(col.vec)]]
                /\ UNCHANGED ret
           ELSE /\ ret' = [Call("add_todo", s, 0) EXCEPT !.outcome = "panic"]
                /\ UNCHANGED <<heap, calls>>
    /\ UNCHANGED <<apps, held, log, doubleFree>>

\* an assignment that collects the elements again and pushes onto them, as
\* a call under a lock would
AddTodoInstallMerge(c) ==
    /\ Running
    /\ calls[c].pc = "pushed"
    /\ LET s == calls[c].slot
           app == apps[s].ptr
           col == ClonedCollect(heap, Todos(heap, app), <<>>)
           native_vec == Push(col.vec, calls[c].vec[Len(calls[c].vec)])
           buf == NewAddr(col.hp)
           hp2 == Alloc(col.hp, VecCell(native_vec))
           old == TodosDrop(heap, app)
           hp3 == [hp2 EXCEPT ![app] = AppCell(buf, Len(native_vec))]
       IN  /\ heap' = Release(hp3, Range(old))
           /\ doubleFree' = (doubleFree \/ ~DropOk(hp3, old))
           /\ ret' = [Call("add_todo", s, 0) EXCEPT !.flag = AddTodoFlag(calls[c].n)]
           /\ log' = [log EXCEPT ![s] =
                         Append(@, [id |-> calls[c].id, note |-> calls[c].text])]
    /\ calls' = [calls EXCEPT ![c] = IdleCall]
    /\ UNCHANGED <<apps, held>>

\* app.todos = native_vec.into(), which drops the value app.todos holds at
\* that moment, and the return of true
AddTodoInstall(c) ==
    /\ Running
    /\ calls[c].pc = "pushed"
    /\ LET s == calls[c].slot
           app == apps[s].ptr
           native_vec == calls[c].vec
           buf == NewAddr(heap)
           hp2 == Alloc(heap, VecCell(native_vec))
           old == TodosDrop(heap, app)
           hp3 == [hp2 EXCEPT ![app] = AppCell(buf, Len(native_vec))]
       IN  /\ heap' = Release(hp3, Range(old))
           /\ doubleFree' = (doubleFree \/ ~DropOk(hp3, old))
           /\ ret' = [Call("add_todo", s, 0) EXCEPT !.flag = AddTodoFlag(calls[c].n)]
           /\ log' = [log EXCEPT ![s] =
                         Append(@, [id |-> calls[c].id, note |-> calls[c].text])]
    /\ calls' = [calls EXCEPT ![c] = IdleCall]
    /\ UNCHANGED <<apps, held>>

\* two calls in flight on one App: the data race may end the call in a
\* fault, or in a result read from a torn value
AddTodoRace(c) ==
    /\ Running
    /\ calls[c].pc = "pushed"
    /\ \E d \in Callers \ {c} :
          calls[d].pc = "pushed" /\ calls[d].slot = calls[c].slot
    /\ \E outcome \in {"fault", "garbage"} :
          ret' = [Call("add_todo", calls[c].slot, 0) EXCEPT
                     !.outcome = outcome, !.flag = (outcome = "garbage")]
    /\ UNCHANGED <<heap, apps, held, log, doubleFree, calls>>

\* the callers obtain the handles before they start, and read the count
\* when no call is in flight
RaceNext ==
    \/ \E s \in Slots : AllIdle /\ AppNew(s)
    \/ \E c \in Callers, s \in Slots, in \in Inputs : AddTodoCollect(c, s, in.id, in.note)
    \/ \E c \in Callers : AddTodoInstall(c)
    \/ \E c \in Callers : AddTodoRace(c)
    \/ \E s \in Slots : AllIdle /\ GetTodoCount(s)

SpecRace == Init /\ [][RaceNext]_vars

---------------------------------------------------------------------------
(* What a caller observes of a handle *)

Count(s) == TodoCount(heap, apps[s].ptr)

IdAt(s, index) == TodoIdAt(heap, apps[s].ptr, index)

\* the text of the string get_todo_note_at returns
NoteAt(s, index) == ToStr(TodoNoteAt(heap, apps[s].ptr, index))

\* the elements of a handle as the accessors show them
View(s) ==
    [i \in 1 .. Count(s) |-> [id |-> IdAt(s, i - 1), note |-> NoteAt(s, i - 1)]]

\* the elements of a handle as the heap holds them: each id and the bytes of each note
Stored(s) ==
    LET es == Todos(heap, apps[s].ptr)
    IN  [i \in DOMAIN es |-> [id |-> es[i].id, bytes |-> Cell(heap, es[i].note).bytes]]

\* what the accessors show is what the heap holds
ViewIsStored(s) ==
    View(s) = [i \in DOMAIN Stored(s) |->
                  [id |-> Stored(s)[i].id, note |-> ToStr(Stored(s)[i].bytes)]]

LiveSlots == {s \in Slots : Live(s)}

\* the last call was op on a live handle and returned
Returned(op) == ret.op = op /\ ret.slot \in Slots /\ ret.outcome = "ok"

ProbeIndexes == 0 .. (MaxAdds + 1)

---------------------------------------------------------------------------
(* C1: after k add_todo calls on an App created empty, get_todo_count
   returns k, and get_todo_id_at(i) / get_todo_note_at(i) return the id and
   the note of the i-th add_todo call, for every i < k, in insertion order. *)
C1_InsertionOrder ==
    /\ \A s \in Slots : Live(s) =>
          /\ Count(s) = Len(log[s])
          /\ \A i \in 1 .. Len(log[s]) :
                /\ IdAt(s, i - 1) = log[s][i].id
                /\ NoteAt(s, i - 1) = log[s][i].note
    /\ Returned("get_todo_count") => ret.num = Len(log[ret.slot])
    /\ (Returned("get_todo_id_at") /\ ret.index < Len(log[ret.slot]))
          => ret.num = log[ret.slot][ret.index + 1].id
    /\ (Returned("get_todo_note_at") /\ ret.index < Len(log[ret.slot]))
          => ret.str = log[ret.slot][ret.index + 1].note

\* two different elements were added and the second one was read back
C1_Witness ==
    /\ Returned("get_todo_note_at")
    /\ Len(log[ret.slot]) = 2
    /\ log[ret.slot][1] # log[ret.slot][2]
    /\ ret.index = 1
    /\ ret.str = log[ret.slot][2].note
    /\ IdAt(ret.slot, 0) = log[ret.slot][1].id

(* C2: for every index >= get_todo_count(app), get_todo_id_at returns -1 and
   get_todo_note_at returns the empty string; the call returns normally and
   leaves the handles and every cell that was live before it as they were. *)
C2_OutOfRangeSentinel ==
    /\ [](/\ \A s \in Slots : Live(s) =>
                \A index \in ProbeIndexes : index >= Count(s) =>
                    /\ IdAt(s, index) = ErrId
                    /\ NoteAt(s, index) = <<>>
          /\ (ret.op = "get_todo_id_at" /\ ret.slot \in Slots
                /\ ret.index >= Count(ret.slot))
                => (ret.outcome = "ok" /\ ret.num = ErrId)
          /\ (ret.op = "get_todo_note_at" /\ ret.slot \in Slots
                /\ ret.index >= Count(ret.slot))
                => (ret.outcome = "ok" /\ ret.str = <<>>))
    /\ [][(ret'.op \in {"get_todo_id_at", "get_todo_note_at"} /\ ret'.slot \in Slots
            /\ ret'.index >= Count(ret'.slot))
          => (/\ apps' = apps
              /\ log' = log
              /\ \A a \in DOMAIN heap : a \in DOMAIN heap' /\ heap'[a] = heap[a])]_vars

\* index = count on an App that holds an element, and index 0 on an empty App
C2_Witness ==
    /\ Returned("get_todo_note_at")
    /\ Count(ret.slot) = 1
    /\ ret.index = 1
    /\ ret.str = <<>>
    /\ \E s \in Slots : Live(s) /\ Count(s) = 0 /\ IdAt(s, 0) = ErrId

(* C3: a text without an interior null byte that is stored (Todo::new, or
   add_todo) reads back equal (todo.note, or get_todo_note_at at the
   element's index), whatever add_todo calls follow. *)
C3_StringRoundTrip ==
    /\ (ret.op = "Todo::new" /\ ~HasNul(ret.text))
          => (ret.outcome = "ok" /\ ret.str = ret.text)
    /\ \A s \in Slots : Live(s) =>
          \A i \in 1 .. Len(log[s]) :
              i <= Count(s) /\ NoteAt(s, i - 1) = log[s][i].note

\* a non-empty text went through Todo::new, and one stored first is still
\* read back after a later add_todo
C3_Witness ==
    /\ ret.op = "Todo::new"
    /\ ret.outcome = "ok"
    /\ ret.str = <<1, 2>>
    /\ \E s \in Slots :
          /\ Live(s)
          /\ Len(log[s]) = 2
          /\ log[s][1].note = <<1, 2>>
          /\ NoteAt(s, 0) = <<1, 2>>

(* C4: a null handle passed to add_todo or to an accessor is a no-op or
   returns the documented sentinel (-1 / empty string / false); the call
   never faults. *)
C4_NullHandleSentinel ==
    (ret.slot = NoSlot /\ ret.op \in NullOps)
        => /\ ret.outcome = "ok"
           /\ ret.flag = FALSE
           /\ ret.num \in {ErrId, 0}
           /\ ret.str = <<>>

(* C5: a text with an interior null byte is rejected by Todo::new with an
   InvalidEncoding outcome returned as a normal value; the call does not
   fault. *)
C5_InvalidEncodingReturned ==
    (ret.op = "Todo::new" /\ HasNul(ret.text)) => ret.outcome = "InvalidEncoding"

---------------------------------------------------------------------------
(* Ownership *)

\* the cells a handle owns: the App, the backing buffer, the note of each element
CellsOf(s) ==
    LET a == Cell(heap, apps[s].ptr)
        es == Cell(heap, a.ptr).elems
    IN  {apps[s].ptr} \cup (IF a.ptr = 0 THEN {} ELSE {a.ptr})
            \cup {es[i].note : i \in DOMAIN es}

\* every live cell is owned by a live handle or by the caller, and every
\* owned cell is live
NoLeak == DOMAIN heap = held \cup UNION {CellsOf(s) : s \in LiveSlots}

CountKind(hp, kind) == Cardinality({a \in DOMAIN hp : hp[a].kind = kind})

(* C6: app_new, N add_todo calls with reads in between, then app_free
   releases the App, its backing buffer and exactly N notes; nothing is
   released twice, and no cell made for the handle stays live, the copies
   made by each add_todo included. *)
C6_FreeReleasesAll ==
    /\ [](~doubleFree /\ NoLeak)
    /\ [][\A s \in Slots : (Live(s) /\ apps'[s].state = "Freed") =>
            LET n == Len(log[s])
            IN  /\ CountKind(heap, "App") - CountKind(heap', "App") = 1
                /\ CountKind(heap, "Str") - CountKind(heap', "Str") = n
                /\ CountKind(heap, "Vec") - CountKind(heap', "Vec")
                      = (IF n = 0 THEN 0 ELSE 1)
                /\ ret'.num = n + 1 + (IF n = 0 THEN 0 ELSE 1)
                /\ Cardinality(held') = Cardinality(held)
                /\ {heap'[a].bytes : a \in held'} = {heap[a].bytes : a \in held}]_vars

\* an App with two elements was freed while the caller still holds a string
\* it read from it, and the other cells are all gone
C6_Witness ==
    /\ ret.op = "app_free"
    /\ ret.num = 4
    /\ LiveSlots = {}
    /\ held # {}
    /\ DOMAIN heap = held

(* C7: with two live Apps, app_new, add_todo on one handle or app_free of
   one handle leaves every other live handle live and its stored elements,
   which are what the accessors show (count, ids, notes), unchanged. *)
C7_HandlesIndependent ==
    /\ [](\A t \in LiveSlots : ViewIsStored(t) /\ Count(t) = Len(Stored(t)))
    /\ [][ret'.op \in {"app_new", "add_todo", "app_free"} =>
            \A t \in Slots : (Live(t) /\ ret'.slot # t) =>
                /\ apps'[t].state = "Live"
                /\ Stored(t)' = Stored(t)]_vars

\* one App that held an element was freed, another that holds one lives on
C7_Witness ==
    /\ ret.op = "app_free"
    /\ ret.num = 3
    /\ \E t \in Slots :
          /\ t # ret.slot
          /\ Live(t)
          /\ Len(log[t]) = 1
          /\ View(t) = log[t]

(* C8: a live App never shrinks and changes by append only: add_todo on the
   handle grows its count by exactly one and every element keeps its index,
   id and note; any other step leaves the stored elements, which are what
   the accessors show, as they were. *)
C8_AppendOnly ==
    /\ [](\A s \in LiveSlots : ViewIsStored(s))
    /\ [][\A s \in Slots : (Live(s) /\ apps'[s].state = "Live") =>
            IF ret'.op = "add_todo" /\ ret'.slot = s /\ ret'.outcome = "ok"
            THEN /\ Len(Stored(s))' = Len(Stored(s)) + 1
                 /\ \A i \in 1 .. Len(Stored(s)) : Stored(s)'[i] = Stored(s)[i]
            ELSE Stored(s)' = Stored(s)]_vars

\* add_todo on an App that held an element
C8_Witness ==
    /\ Returned("add_todo")
    /\ Count(ret.slot) = 2
    /\ View(ret.slot) = log[ret.slot]
    /\ log[ret.slot][1] # log[ret.slot][2]

(* C9: get_todo_note_at returns a fresh allocation owned by the caller,
   distinct from the stored note and from the strings returned before;
   dropping or overwriting it leaves the stored note, and what a later
   get_todo_note_at returns, unchanged. *)
C9_DuplicateOnRead ==
    /\ [](/\ held \subseteq DOMAIN heap
          /\ \A s \in LiveSlots :
                /\ held \cap CellsOf(s) = {}
                /\ \A i \in 1 .. Len(log[s]) : NoteAt(s, i - 1) = log[s][i].note)
    /\ [][/\ (ret'.op = "get_todo_note_at" /\ ret'.slot \in Slots) =>
                /\ apps' = apps
                /\ \A a \in DOMAIN heap : a \in DOMAIN heap' /\ heap'[a] = heap[a]
                /\ \E a \in (DOMAIN heap') \ (DOMAIN heap) :
                      /\ held' = held \cup {a}
                      /\ heap'[a].kind = "Str"
                      /\ DOMAIN heap' = (DOMAIN heap) \cup {a}
          /\ ret'.op \in {"alter", "drop"} =>
                /\ apps' = apps
                /\ \A s \in LiveSlots : \A a \in CellsOf(s) :
                      a \in DOMAIN heap' /\ heap'[a] = heap[a]]_vars

\* the caller overwrote the copy of a stored note; the stored note is intact
C9_Witness ==
    /\ ret.op = "alter"
    /\ \E a \in held : heap[a].bytes = Scribble
    /\ \E s \in LiveSlots : Count(s) >= 1 /\ NoteAt(s, 0) = <<1, 2>>

(* C10: add_todo on a live App with a valid note returns true, for every
   id and every size of the collection. *)
C10_AddTodoSucceeds ==
    (ret.op = "add_todo" /\ ret.slot \in Slots)
        => (ret.outcome = "ok" /\ ret.flag = TRUE)

\* add_todo returned true on an empty App and on one that held an element,
\* for the id -1 with the empty note
C10_Witness ==
    /\ Returned("add_todo")
    /\ ret.flag = TRUE
    /\ Len(log[ret.slot]) = 2
    /\ log[ret.slot][2] = [id |-> ErrId, note |-> <<>>]

(* C11: the id of a Todo identifies it: in every reachable state no two
   elements of app.todos of a live App have the same id. *)
C11_UniqueIds ==
    \A s \in LiveSlots :
        \A i, j \in DOMAIN Stored(s) : i # j => Stored(s)[i].id # Stored(s)[j].id

---------------------------------------------------------------------------
(* Lifecycle of a handle *)

HandleOps == {"add_todo", "get_todo_count", "get_todo_id_at", "get_todo_note_at"}

(* C12: a handle goes Unallocated -> Live -> Freed: only app_new makes it
   Live, only app_free makes it Freed, add_todo and the accessors keep a
   Live handle Live, a Freed handle stays Freed; with calls on Live handles
   only, the App of a handle is live exactly while the handle is Live and
   nothing is released twice. *)
C12_HandleLifecycle ==
    /\ [](/\ ~doubleFree
          /\ \A s \in Slots :
                Live(s) <=> (apps[s].ptr \in DOMAIN heap
                               /\ heap[apps[s].ptr].kind = "App"))
    /\ [][\A s \in Slots :
            /\ (apps'[s].state # apps[s].state) =>
                  \/ /\ apps[s].state = "Unallocated"
                     /\ apps'[s].state = "Live"
                     /\ ret'.op = "app_new" /\ ret'.slot = s
                  \/ /\ apps[s].state = "Live"
                     /\ apps'[s].state = "Freed"
                     /\ ret'.op = "app_free" /\ ret'.slot = s
            /\ (ret'.op = "app_new" /\ ret'.slot = s) =>
                  (apps[s].state = "Unallocated" /\ apps'[s].state = "Live")
            /\ (ret'.op = "app_free" /\ ret'.slot = s) =>
                  (apps[s].state = "Live" /\ apps'[s].state = "Freed")
            /\ (ret'.op \in HandleOps /\ ret'.slot = s) =>
                  (apps[s].state = "Live" /\ apps'[s].state = "Live")
            /\ apps[s].state = "Freed" => apps'[s].state = "Freed"]_vars

\* the first handle was freed; the second one, created since, took an element
C12_Witness ==
    /\ apps[1].state = "Freed"
    /\ Returned("add_todo")
    /\ ret.slot = 2
    /\ Live(2)
    /\ Count(2) = 1

---------------------------------------------------------------------------
(* Copy on append *)

\* a live App owns one backing buffer when it holds elements and none when
\* it is empty, and one live note per element, no two elements the same one
OwnsItsCells(s) ==
    LET a == heap[apps[s].ptr]
        es == Todos(heap, apps[s].ptr)
    IN  /\ a.len = 0 <=> a.ptr = 0
        /\ a.ptr # 0 =>
              /\ a.ptr \in DOMAIN heap
              /\ heap[a.ptr].kind = "Vec"
              /\ Len(heap[a.ptr].elems) = a.len
        /\ \A i \in DOMAIN es :
              es[i].note \in DOMAIN heap /\ heap[es[i].note].kind = "Str"
        /\ \A i, j \in DOMAIN es : i # j => es[i].note # es[j].note

\* add_todo(app, id, note) called in this state on handle s: the heap it
\* leaves holds a new buffer of the old elements' copies and the new element,
\* each note a new allocation, and the old buffer and its notes are gone
CopiesOnAppend(s, id, text) ==
    LET app == apps[s].ptr
        before == Todos(heap, app)
        old == Range(TodosDrop(heap, app))
        r == AddTodoHeap(heap, app, id, CStr(text))
        after == Todos(r.hp, app)
        fresh == {r.hp[app].ptr} \cup {after[i].note : i \in DOMAIN after}
    IN  /\ r.ok /\ r.dropOk
        /\ Len(after) = Len(before) + 1
        /\ r.hp[app].ptr \notin DOMAIN heap
        /\ Len(r.hp[r.hp[app].ptr].elems) = Len(after)
        /\ \A i \in DOMAIN before :
              /\ after[i].id = before[i].id
              /\ after[i].note \notin DOMAIN heap
              /\ r.hp[after[i].note].bytes = heap[before[i].note].bytes
        /\ after[Len(after)].id = id
        /\ after[Len(after)].note \notin DOMAIN heap
        /\ r.hp[after[Len(after)].note].bytes = CStr(text)
        /\ Cardinality(fresh) = Len(after) + 1
        /\ old \cap DOMAIN r.hp = {}
        /\ DOMAIN r.hp = ((DOMAIN heap) \ old) \cup fresh
        /\ \A a \in (DOMAIN heap) \ (old \cup {app}) : r.hp[a] = heap[a]

(* C13: add_todo on a collection of length n builds a new backing buffer of
   length n+1 whose first n elements are deep copies of the prior elements,
   each with a note allocation of its own, installs it and discards the old
   buffer with its n notes; a live App owns exactly one backing buffer and
   one note per element, and no cell belongs to two elements or two Apps. *)
C13_CopyOnAppend ==
    /\ \A s \in LiveSlots :
          /\ OwnsItsCells(s)
          /\ \A in \in Inputs : CopiesOnAppend(s, in.id, in.note)
    /\ \A s, t \in LiveSlots : s # t => CellsOf(s) \cap CellsOf(t) = {}

\* add_todo has run on an App that held an element, next to another live App
C13_Witness ==
    /\ Returned("add_todo")
    /\ Count(ret.slot) = 2
    /\ CountKind(heap, "Vec") = 1
    /\ CountKind(heap, "Str") = 2
    /\ \E t \in LiveSlots : t # ret.slot

---------------------------------------------------------------------------
(* The caller's buffers *)

\* the cells that hold the notes of a handle's elements
NotesOf(s) == {Todos(heap, apps[s].ptr)[i].note : i \in 1 .. Count(s)}

(* C14: add_todo does not retain the caller's buffer: the stored note is a
   copy made during the call, so after add_todo has returned, overwriting
   or releasing the caller's text changes no stored element and hence not
   what get_todo_note_at returns for it. *)
C14_InputNotRetained ==
    /\ [](/\ \A s \in LiveSlots : NotesOf(s) \cap held = {} /\ ViewIsStored(s)
          /\ (Returned("add_todo") /\ ret.text # <<>>) =>
                /\ \E a \in held : heap[a].bytes = CStr(ret.text)
                /\ NoteAt(ret.slot, Count(ret.slot) - 1) = ret.text)
    /\ [][ret'.op \in {"alter", "drop"} =>
            \A s \in Slots : Live(s) =>
                apps'[s] = apps[s] /\ Stored(s)' = Stored(s)]_vars

\* add_todo was passed a buffer the caller still holds, and stored its text
C14_Witness ==
    /\ Returned("add_todo")
    /\ ret.text = <<1, 2>>
    /\ \E a \in held : heap[a].bytes = <<1, 2, 0>> /\ a \notin NotesOf(ret.slot)
    /\ Count(ret.slot) = 2
    /\ NoteAt(ret.slot, 1) = <<1, 2>>

---------------------------------------------------------------------------
(* The accessors *)

Accessors == {"get_todo_count", "get_todo_id_at", "get_todo_note_at"}

(* C15: get_todo_count, get_todo_id_at and get_todo_note_at leave every App
   as it was (liveness, length, ids, notes), for every index, in range or
   not; so a read repeated with no add_todo in between returns an equal
   result: what a call returned is what the same call returns in the state
   it left. *)
C15_AccessorsLeaveApp ==
    /\ [](/\ Returned("get_todo_count") => ret.num = Count(ret.slot)
          /\ Returned("get_todo_id_at") => ret.num = IdAt(ret.slot, ret.index)
          /\ Returned("get_todo_note_at") => ret.str = NoteAt(ret.slot, ret.index))
    /\ [][(ret'.op \in Accessors /\ ret'.slot \in Slots) =>
            /\ apps' = apps
            /\ log' = log
            /\ \A s \in Slots : Live(s) =>
                  /\ TodoCount(heap', apps'[s].ptr) = Count(s)
                  /\ Stored(s)' = Stored(s)]_vars

\* the id at index 0 was read from an App with two elements after a note
\* had been read from it, and reads the same again
C15_Witness ==
    /\ Returned("get_todo_id_at")
    /\ ret.index = 0
    /\ Count(ret.slot) = 2
    /\ held # {}
    /\ ret.num = IdAt(ret.slot, 0)
    /\ View(ret.slot) = log[ret.slot]

---------------------------------------------------------------------------
(* C17: the error values are not reserved: add_todo accepts the id -1 and
   the empty note and stores them; for an index in range get_todo_id_at and
   get_todo_note_at return the stored value also when it is -1 or the empty
   string, so a result of -1 (or an empty string) comes from an index out
   of range or from an element in range that holds that value. *)
C17_SentinelsNotReserved ==
    /\ (ret.op = "add_todo" /\ ret.slot \in Slots /\ Live(ret.slot)) =>
          LET n == Len(log[ret.slot])
          IN  /\ ret.outcome = "ok" /\ ret.flag = TRUE
              /\ Count(ret.slot) = n
              /\ Stored(ret.slot)[n].id = log[ret.slot][n].id
              /\ ToStr(Stored(ret.slot)[n].bytes) = log[ret.slot][n].note
    /\ \A s \in LiveSlots : \A index \in 0 .. (Len(log[s]) - 1) :
          /\ log[s][index + 1].id = ErrId =>
                (index < Count(s) /\ IdAt(s, index) = ErrId)
          /\ log[s][index + 1].note = <<>> =>
                (index < Count(s) /\ NoteAt(s, index) = <<>>)
    /\ (Returned("get_todo_id_at") /\ ret.num = ErrId) =>
          \/ ret.index >= Count(ret.slot)
          \/ log[ret.slot][ret.index + 1].id = ErrId
    /\ (Returned("get_todo_note_at") /\ ret.str = <<>>) =>
          \/ ret.index >= Count(ret.slot)
          \/ log[ret.slot][ret.index + 1].note = <<>>

\* get_todo_id_at returned -1 for index 0 of an App whose first element was
\* added with id -1 and the empty note; an index out of range reads the same
C17_Witness ==
    /\ Returned("get_todo_id_at")
    /\ ret.index = 0
    /\ ret.num = ErrId
    /\ Count(ret.slot) = 1
    /\ log[ret.slot][1] = [id |-> ErrId, note |-> <<>>]
    /\ NoteAt(ret.slot, 0) = <<>>
    /\ IdAt(ret.slot, 1) = ret.num
    /\ NoteAt(ret.slot, 1) = NoteAt(ret.slot, 0)

---------------------------------------------------------------------------
(* C16: add_todo takes no lock and is a read-copy-then-replace sequence:
   started on n elements, a call installs n+1 elements and returns true
   whatever other calls have completed on the handle meanwhile, so the
   count never exceeds, and with two calls at once may stay below, the
   number of add_todo calls that returned true. *)
C16_LostAppend ==
    /\ [](\A s \in LiveSlots : Count(s) <= Len(log[s]))
    /\ [][\A c \in Callers :
            (calls[c].pc = "pushed" /\ calls'[c].pc = "idle") =>
                LET s == calls[c].slot
                IN  /\ ret'.op = "add_todo" /\ ret'.slot = s
                    /\ ret'.outcome = "ok" /\ ret'.flag = TRUE
                    /\ Len(log'[s]) = Len(log[s]) + 1
                    /\ TodoCount(heap', apps'[s].ptr) = calls[c].n + 1
                    /\ Len(Todos(heap', apps'[s].ptr)) = Len(calls[c].vec)]_vars

\* two add_todo calls on one handle have both returned true, no call is in
\* flight, and get_todo_count returns 1
C16_Witness ==
    /\ AllIdle
    /\ Returned("get_todo_count")
    /\ Len(log[ret.slot]) = 2
    /\ ret.num = 1
    /\ Count(ret.slot) = 1
    /\ ~doubleFree

====
